---- MODULE Spec2Model ----
(***************************************************************************)
(* Model of the knowledge-graph generator (usathyan/KG): the URI           *)
(* sanitizer and graph builder (src/src/kg_builder.py), the ontology       *)
(* matcher (src/src/ontology_matcher.py) and the relation extractor        *)
(* (src/src/relation_extractor.py).                                        *)
(*                                                                         *)
(* Strings on which the code works character by character (relation       *)
(* names, entity texts, texts to scan, URIs) are sequences of Unicode code *)
(* points; the modelled range is Latin-1 (0..255), and so are the strings  *)
(* the code only copies (descriptions, domains, ranges, question texts).   *)
(* A Python dict is a sequence of <<key, value>> pairs with distinct keys, *)
(* in insertion order; a dict with string keys that the code reads with    *)
(* d['k'] or d.get('k') is a record.                                       *)
(***************************************************************************)
EXTENDS Integers, Sequences, FiniteSets, TLC

VARIABLES
    last,                 \* the call that returned last: [op, args, ret], or NoCall
    similarity_threshold, \* OntologyMatcher.similarity_threshold, a rational <<num, den>>
    semantic_equivalence, \* OntologyMatcher.semantic_equivalence
    custom_relations,     \* RelationExtractor.custom_relations
    all_relations,        \* RelationExtractor.all_relations
    nlp,                  \* KnowledgeGraphBuilder.nlp: TRUE when the spaCy model loaded
    adds                  \* number of add_custom_relation calls made so far

vars == <<last, similarity_threshold, semantic_equivalence, custom_relations,
          all_relations, nlp, adds>>

\* Longest generated input string.
MaxLen == 3

NoCall == [op |-> "none"]

\* All sequences over S of length at most n.
BoundedSeq(S, n) == UNION {[1..k -> S] : k \in 0..n}

(***************************************************************************)
(* Characters                                                              *)
(***************************************************************************)

IsAsciiAlnum(c) == (c \in 48..57) \/ (c \in 65..90) \/ (c \in 97..122)

\* re's \w on str: alphanumeric in Unicode, or the underscore.
IsWord(c) ==
    \/ IsAsciiAlnum(c)
    \/ c = 95
    \/ c \in {170, 178, 179, 181, 185, 186, 188, 189, 190}
    \/ (c \in 192..255 /\ c \notin {215, 247})

\* str.lower() on one character.
LowerChar(c) ==
    IF (c \in 65..90) \/ (c \in 192..222 /\ c # 215) THEN c + 32 ELSE c

lower(s) == [i \in 1..Len(s) |-> LowerChar(s[i])]

\* Characters str.strip() removes.
IsSpace(c) == c \in ((9..13) \cup (28..32) \cup {133, 160})

RECURSIVE lstrip(_)
lstrip(s) == IF s # <<>> /\ IsSpace(Head(s)) THEN lstrip(Tail(s)) ELSE s

RECURSIVE rstrip(_)
rstrip(s) ==
    IF s # <<>> /\ IsSpace(s[Len(s)]) THEN rstrip(SubSeq(s, 1, Len(s) - 1)) ELSE s

strip(s) == rstrip(lstrip(s))

\* The UTF-8 encoding of one code point, as a sequence of bytes.
Utf8(c) ==
    IF c < 128 THEN <<c>>
    ELSE IF c < 2048 THEN <<192 + (c \div 64), 128 + (c % 64)>>
    ELSE IF c < 65536 THEN
        <<224 + (c \div 4096), 128 + ((c \div 64) % 64), 128 + (c % 64)>>
    ELSE <<240 + (c \div 262144), 128 + ((c \div 4096) % 64),
           128 + ((c \div 64) % 64), 128 + (c % 64)>>

\* The upper-case hexadecimal digit for n in 0..15.
HexDigit(n) == IF n < 10 THEN 48 + n ELSE 55 + n

\* Bytes urllib.parse.quote(safe='') leaves as they are: letters, digits, _ . - ~
IsQuoteSafe(b) == IsAsciiAlnum(b) \/ b \in {95, 46, 45, 126}

QuoteByte(b) == IF IsQuoteSafe(b) THEN <<b>> ELSE <<37, HexDigit(b \div 16), HexDigit(b % 16)>>

RECURSIVE QuoteBytes(_)
QuoteBytes(bs) == IF bs = <<>> THEN <<>> ELSE QuoteByte(Head(bs)) \o QuoteBytes(Tail(bs))

\* urllib.parse.quote(s, safe=''): encode to UTF-8, percent-escape the unsafe bytes.
RECURSIVE quote(_)
quote(s) == IF s = <<>> THEN <<>> ELSE QuoteBytes(Utf8(Head(s))) \o quote(Tail(s))

(***************************************************************************)
(* KnowledgeGraphBuilder.sanitize_uri                                      *)
(***************************************************************************)

\* re.sub(r'[^\w\-]', '_', s)
ReplaceSpecial(s) == [i \in 1..Len(s) |-> IF IsWord(s[i]) \/ s[i] = 45 THEN s[i] ELSE 95]

\* CollapseUnderscores that collapses nothing.
CollapseUnderscores_Keep(s) == s

\* re.sub(r'_+', '_', s)
RECURSIVE CollapseUnderscores(_)
CollapseUnderscores(s) ==
    IF s = <<>> THEN <<>>
    ELSE IF Len(s) >= 2 /\ s[1] = 95 /\ s[2] = 95 THEN CollapseUnderscores(Tail(s))
    ELSE <<Head(s)>> \o CollapseUnderscores(Tail(s))

sanitize_uri(value) == quote(CollapseUnderscores(ReplaceSpecial(value)))

(***************************************************************************)
(* Dicts and optional values                                               *)
(***************************************************************************)

DictKeys(d) == {d[i][1] : i \in 1..Len(d)}

DictHas(d, k) == k \in DictKeys(d)

\* d[k], for a key of d.
DictGet(d, k) == d[CHOOSE i \in 1..Len(d) : d[i][1] = k][2]

\* d[k] = v: an existing key keeps its position, a new key goes last.
DictSet(d, k, v) ==
    IF DictHas(d, k)
    THEN [i \in 1..Len(d) |-> IF d[i][1] = k THEN <<k, v>> ELSE d[i]]
    ELSE Append(d, <<k, v>>)

\* {**a, **b}
RECURSIVE DictMerge(_, _)
DictMerge(a, b) ==
    IF b = <<>> THEN a ELSE DictMerge(DictSet(a, b[1][1], b[1][2]), Tail(b))

\* A variable that holds None or an object: <<>> (None) or <<object>>.
None == <<>>

Some(x) == <<x>>

(***************************************************************************)
(* String literals of ontology_matcher.py and relation_extractor.py        *)
(***************************************************************************)

S_birth == <<98, 105, 114, 116, 104>>  \* "birth"
S_born == <<98, 111, 114, 110>>  \* "born"
S_date_of_birth == <<100, 97, 116, 101, 32, 111, 102, 32, 98, 105, 114, 116, 104>>  \* "date of birth"
S_birthdate == <<98, 105, 114, 116, 104, 100, 97, 116, 101>>  \* "birthdate"
S_death == <<100, 101, 97, 116, 104>>  \* "death"
S_died == <<100, 105, 101, 100>>  \* "died"
S_date_of_death == <<100, 97, 116, 101, 32, 111, 102, 32, 100, 101, 97, 116, 104>>  \* "date of death"
S_deathdate == <<100, 101, 97, 116, 104, 100, 97, 116, 101>>  \* "deathdate"
S_citizenship == <<99, 105, 116, 105, 122, 101, 110, 115, 104, 105, 112>>  \* "citizenship"
S_nationality == <<110, 97, 116, 105, 111, 110, 97, 108, 105, 116, 121>>  \* "nationality"
S_country_of_citizenship == <<99, 111, 117, 110, 116, 114, 121, 32, 111, 102, 32, 99, 105, 116, 105, 122, 101, 110, 115, 104, 105, 112>>  \* "country of citizenship"
S_origin == <<111, 114, 105, 103, 105, 110>>  \* "origin"
S_occupation == <<111, 99, 99, 117, 112, 97, 116, 105, 111, 110>>  \* "occupation"
S_profession == <<112, 114, 111, 102, 101, 115, 115, 105, 111, 110>>  \* "profession"
S_job == <<106, 111, 98>>  \* "job"
S_career == <<99, 97, 114, 101, 101, 114>>  \* "career"
S_work == <<119, 111, 114, 107>>  \* "work"
S_creation == <<99, 114, 101, 97, 116, 105, 111, 110>>  \* "creation"
S_notable_work == <<110, 111, 116, 97, 98, 108, 101, 32, 119, 111, 114, 107>>  \* "notable work"
S_achievement == <<97, 99, 104, 105, 101, 118, 101, 109, 101, 110, 116>>  \* "achievement"

(***************************************************************************)
(* difflib.SequenceMatcher(None, a, b).ratio(), for strings shorter than   *)
(* 200 characters (no junk, no "popular" elements).  Positions are         *)
(* Python's: 0-based, ranges half-open.                                    *)
(***************************************************************************)

\* Length of the longest common run of a[i:ahi] and b[j:bhi] starting at i and j.
RECURSIVE MatchLen(_, _, _, _, _, _)
MatchLen(a, b, i, j, ahi, bhi) ==
    IF i < ahi /\ j < bhi /\ a[i + 1] = b[j + 1]
    THEN 1 + MatchLen(a, b, i + 1, j + 1, ahi, bhi)
    ELSE 0

SetMax(S) == CHOOSE x \in S : \A y \in S : y <= x

SetMin(S) == CHOOSE x \in S : \A y \in S : x <= y

\* SequenceMatcher.find_longest_match: <<i, j, k>>, the longest matching block
\* of a[alo:ahi] and b[blo:bhi]; of several, the one starting earliest in a,
\* and of those the one starting earliest in b.
find_longest_match(a, b, alo, ahi, blo, bhi) ==
    LET cand == (alo..(ahi - 1)) \X (blo..(bhi - 1))
        size == [p \in cand |-> MatchLen(a, b, p[1], p[2], ahi, bhi)]
        best == SetMax({0} \cup {size[p] : p \in cand})
    IN  IF best = 0 THEN <<alo, blo, 0>>
        ELSE LET i == SetMin({p[1] : p \in {q \in cand : size[q] = best}})
                 j == SetMin({p[2] : p \in {q \in cand : size[q] = best /\ q[1] = i}})
             IN  <<i, j, best>>

\* Sum of the sizes of SequenceMatcher.get_matching_blocks() within a[alo:ahi], b[blo:bhi].
RECURSIVE MatchingSize(_, _, _, _, _, _)
MatchingSize(a, b, alo, ahi, blo, bhi) ==
    LET m == find_longest_match(a, b, alo, ahi, blo, bhi)
        i == m[1]
        j == m[2]
        k == m[3]
    IN  IF k = 0 THEN 0
        ELSE k + (IF alo < i /\ blo < j THEN MatchingSize(a, b, alo, i, blo, j) ELSE 0)
               + (IF i + k < ahi /\ j + k < bhi
                  THEN MatchingSize(a, b, i + k, ahi, j + k, bhi) ELSE 0)

\* SequenceMatcher.ratio(): 2.0 * matches / length as the rational <<num, den>>,
\* and 1.0 when both strings are empty.
ratio(a, b) ==
    IF Len(a) + Len(b) = 0 THEN <<1, 1>>
    ELSE <<2 * MatchingSize(a, b, 0, Len(a), 0, Len(b)), Len(a) + Len(b)>>

\* Comparison of rationals <<num, den>> with den > 0.
RatGeq(r, s) == r[1] * s[2] >= s[1] * r[2]

RatGt(r, s) == r[1] * s[2] > s[1] * r[2]

(***************************************************************************)
(* OntologyMatcher                                                         *)
(***************************************************************************)

\* The equivalence groups set by __init__, in declaration order.
BuiltinEquivalence ==
    << <<S_birth, <<S_born, S_date_of_birth, S_birthdate>> >>,
       <<S_death, <<S_died, S_date_of_death, S_deathdate>> >>,
       <<S_citizenship, <<S_nationality, S_country_of_citizenship, S_origin>> >>,
       <<S_occupation, <<S_profession, S_job, S_career>> >>,
       <<S_work, <<S_creation, S_notable_work, S_achievement>> >> >>

\* x in list
InList(x, list) == \E i \in 1..Len(list) : list[i] = x

\* is_semantically_similar without the equivalence-group tier.
is_semantically_similar_NoGroups(property1, property2) ==
    LET prop1 == strip(lower(property1))
        prop2 == strip(lower(property2))
    IN  IF prop1 = prop2 THEN TRUE
        ELSE RatGeq(ratio(prop1, prop2), similarity_threshold)

is_semantically_similar(property1, property2) ==
    LET prop1 == strip(lower(property1))
        prop2 == strip(lower(property2))
    IN  IF prop1 = prop2 THEN TRUE
        ELSE IF \E g \in 1..Len(semantic_equivalence) :
                    /\ InList(prop1, semantic_equivalence[g][2])
                    /\ InList(prop2, semantic_equivalence[g][2])
             THEN TRUE
             ELSE RatGeq(ratio(prop1, prop2), similarity_threshold)

\* The record match_relations appends for one input record, for the
\* equivalence groups given: the first group that lists the relation renames it.
RefineRelationIn(groups, relation) ==
    LET hits == {g \in 1..Len(groups) : InList(relation.relation, groups[g][2])}
    IN  IF hits = {} THEN relation
        ELSE [relation EXCEPT !.relation = groups[SetMin(hits)][1]]

\* RefineRelation renaming to the first variant of the group, not to its name.
RefineRelation_FirstVariant(relation) ==
    LET hits == {g \in 1..Len(semantic_equivalence) :
                    InList(relation.relation, semantic_equivalence[g][2])}
    IN  IF hits = {} THEN relation
        ELSE [relation EXCEPT !.relation = semantic_equivalence[SetMin(hits)][2][1]]

RefineRelation(relation) == RefineRelationIn(semantic_equivalence, relation)

match_relations(relations) == [i \in 1..Len(relations) |-> RefineRelation(relations[i])]

\* The dict objects of a call live in a heap, a sequence indexed by reference.
\* A copy that hands back the object copied instead of a new one.
DictCopy_Alias(heap, ref) == [heap |-> heap, ref |-> ref]

\* relation.copy(): a new object holding the fields of the object copied.
DictCopy(heap, ref) == [heap |-> Append(heap, heap[ref]), ref |-> Len(heap) + 1]

\* The loop of match_relations over the input objects n..count, which are the
\* references 1..count of the heap: copy, rename the copy, append the copy.
RECURSIVE MatchLoop(_, _, _, _)
MatchLoop(heap, n, count, matched_relations) ==
    IF n > count THEN [heap |-> heap, matched_relations |-> matched_relations]
    ELSE LET refined_relation == DictCopy(heap, n)
             hits == {g \in 1..Len(semantic_equivalence) :
                         InList(heap[n].relation, semantic_equivalence[g][2])}
             written ==
                 IF hits = {} THEN refined_relation.heap
                 ELSE [refined_relation.heap EXCEPT ![refined_relation.ref].relation =
                           semantic_equivalence[SetMin(hits)][1]]
         IN  MatchLoop(written, n + 1, count,
                       Append(matched_relations, refined_relation.ref))

\* The input objects as match_relations leaves them.
InputAfterMatch(relations) ==
    SubSeq(MatchLoop(relations, 1, Len(relations), <<>>).heap, 1, Len(relations))

\* The objects match_relations returns, read from the heap after the call.
ReturnedByMatch(relations) ==
    LET done == MatchLoop(relations, 1, Len(relations), <<>>)
    IN  [j \in 1..Len(done.matched_relations) |-> done.heap[done.matched_relations[j]]]

\* The inner loop of generate_ontology_mapping over target_ontology[n..]:
\* <<best_match, best_similarity>> at its end.
RECURSIVE BestTarget(_, _, _, _, _)
BestTarget(source_prop, target_ontology, n, best_match, best_similarity) ==
    IF n > Len(target_ontology) THEN <<best_match, best_similarity>>
    ELSE LET target_prop == target_ontology[n]
             similarity == ratio(lower(source_prop), lower(target_prop))
         IN  IF RatGt(similarity, best_similarity) /\ RatGeq(similarity, similarity_threshold)
             THEN BestTarget(source_prop, target_ontology, n + 1, Some(target_prop), similarity)
             ELSE BestTarget(source_prop, target_ontology, n + 1, best_match, best_similarity)

\* if best_match: neither None nor the empty string.
Truthy(opt) == opt # None /\ opt[1] # <<>>

\* The outer loop of generate_ontology_mapping over source_properties[n..].
RECURSIVE MappingFrom(_, _, _, _)
MappingFrom(source_properties, target_ontology, n, ontology_mapping) ==
    IF n > Len(source_properties) THEN ontology_mapping
    ELSE LET source_prop == source_properties[n]
             best_match == BestTarget(source_prop, target_ontology, 1, None, <<0, 1>>)[1]
         IN  MappingFrom(source_properties, target_ontology, n + 1,
                         IF Truthy(best_match)
                         THEN DictSet(ontology_mapping, source_prop, best_match[1])
                         ELSE ontology_mapping)

generate_ontology_mapping(source_properties, target_ontology) ==
    MappingFrom(source_properties, target_ontology, 1, <<>>)

(***************************************************************************)
(* RelationExtractor                                                       *)
(***************************************************************************)

S_desc_date_of_birth == <<84, 104, 101, 32, 100, 97, 116, 101, 32, 111, 110, 32, 119, 104, 105, 99, 104, 32, 116, 104, 101, 32, 115, 117, 98, 106, 101, 99, 116, 32, 119, 97, 115, 32, 98, 111, 114, 110>>  \* "The date on which the subject was born"
S_desc_date_of_death == <<84, 104, 101, 32, 100, 97, 116, 101, 32, 111, 110, 32, 119, 104, 105, 99, 104, 32, 116, 104, 101, 32, 115, 117, 98, 106, 101, 99, 116, 32, 100, 105, 101, 100>>  \* "The date on which the subject died"
S_desc_occupation == <<84, 104, 101, 32, 111, 99, 99, 117, 112, 97, 116, 105, 111, 110, 32, 111, 102, 32, 97, 32, 112, 101, 114, 115, 111, 110>>  \* "The occupation of a person"
S_desc_country_of_citizenship == <<84, 104, 101, 32, 99, 111, 117, 110, 116, 114, 121, 32, 111, 102, 32, 119, 104, 105, 99, 104, 32, 116, 104, 101, 32, 115, 117, 98, 106, 101, 99, 116, 32, 105, 115, 32, 97, 32, 99, 105, 116, 105, 122, 101, 110>>  \* "The country of which the subject is a citizen"
S_desc_notable_work == <<84, 104, 101, 32, 109, 111, 115, 116, 32, 110, 111, 116, 97, 98, 108, 101, 32, 119, 111, 114, 107, 32, 111, 102, 32, 97, 32, 112, 101, 114, 115, 111, 110>>  \* "The most notable work of a person"
S_Person == <<80, 101, 114, 115, 111, 110>>  \* "Person"
S_Date == <<68, 97, 116, 101>>  \* "Date"
S_Occupation == <<79, 99, 99, 117, 112, 97, 116, 105, 111, 110>>  \* "Occupation"
S_Country == <<67, 111, 117, 110, 116, 114, 121>>  \* "Country"
S_Creative_Work == <<67, 114, 101, 97, 116, 105, 118, 101, 32, 87, 111, 114, 107>>  \* "Creative Work"
S_Unknown == <<85, 110, 107, 110, 111, 119, 110>>  \* "Unknown"

\* The empty string ''.
S_empty == <<>>

standard_relations ==
    << <<S_date_of_birth,
         [description |-> S_desc_date_of_birth, domain |-> S_Person, range |-> S_Date]>>,
       <<S_date_of_death,
         [description |-> S_desc_date_of_death, domain |-> S_Person, range |-> S_Date]>>,
       <<S_occupation,
         [description |-> S_desc_occupation, domain |-> S_Person, range |-> S_Occupation]>>,
       <<S_country_of_citizenship,
         [description |-> S_desc_country_of_citizenship, domain |-> S_Person, range |-> S_Country]>>,
       <<S_notable_work,
         [description |-> S_desc_notable_work, domain |-> S_Person, range |-> S_Creative_Work]>> >>

\* dict.get(field, default) on a dict with string keys, modelled as a record.
Get(rec, field, default) == IF field \in DOMAIN rec THEN rec[field] ELSE default

\* sub in text
Contains(sub, text) ==
    \E i \in 0..(Len(text) - Len(sub)) : SubSeq(text, i + 1, i + Len(sub)) = sub

\* The state __init__ leaves, for the dict that json.load returned (<<>> without
\* a config file): <<custom_relations, all_relations>>.
RelationExtractor__init__(loaded) == <<loaded, DictMerge(standard_relations, loaded)>>

\* What is at config_path, by kind, which is what open and json.load make of
\* it: "absent" (no path, or no such file), "unreadable" (open or read raises
\* an OSError), "undecodable" (the bytes are not text in the encoding of
\* open: UnicodeDecodeError), "invalid_json" (JSONDecodeError), "too_deep"
\* (brackets nested beyond the recursion limit: RecursionError),
\* "huge_integer" (an integer literal beyond the digit limit of int:
\* ValueError), or "json" with the value parsed: [t |-> "object", items |->
\* the dict] or a value of another type t.
\* Lines 48-55 of __init__: the exception that leaves them ("None" when none
\* does) and the value of custom_relations; only JSONDecodeError and IOError
\* are caught.
LoadConfig(config) ==
    LET empty == [t |-> "object", items |-> <<>>]
    IN  IF config.kind = "undecodable"
        THEN [exc |-> "UnicodeDecodeError", value |-> empty]
        ELSE IF config.kind = "too_deep"
        THEN [exc |-> "RecursionError", value |-> empty]
        ELSE IF config.kind = "huge_integer"
        THEN [exc |-> "ValueError", value |-> empty]
        ELSE IF config.kind = "json"
        THEN [exc |-> "None", value |-> config.value]
        ELSE [exc |-> "None", value |-> empty]

\* RelationExtractor(config_path): the exception raised, custom_relations and
\* all_relations; {**standard_relations, **x} raises TypeError unless x is
\* a mapping.
Construct(config) ==
    LET load == LoadConfig(config)
    IN  IF load.exc # "None"
        THEN [exc |-> load.exc, custom |-> <<>>, all |-> <<>>]
        ELSE IF load.value.t # "object"
        THEN [exc |-> "TypeError", custom |-> <<>>, all |-> <<>>]
        ELSE [exc |-> "None",
              custom |-> RelationExtractor__init__(load.value.items)[1],
              all |-> RelationExtractor__init__(load.value.items)[2]]

\* The loop of extract_relations over all_relations[n..]: [ret, exc] at its end;
\* details['description'] raises KeyError for an entry without a description
\* and TypeError for an entry that is not a dict (a number, a string, a list
\* or null of the JSON file, written [nondict |-> its type]).
RECURSIVE ExtractFrom(_, _, _)
ExtractFrom(text, n, relations) ==
    IF n > Len(all_relations) THEN [ret |-> relations, exc |-> "None"]
    ELSE LET relation == all_relations[n][1]
             details == all_relations[n][2]
         IN  IF Contains(relation, text)
             THEN IF "nondict" \in DOMAIN details
                  THEN [ret |-> <<>>, exc |-> "TypeError"]
                  ELSE IF "description" \notin DOMAIN details
                  THEN [ret |-> <<>>, exc |-> "KeyError"]
                  ELSE ExtractFrom(text, n + 1,
                           Append(relations,
                                  [relation |-> relation,
                                   description |-> details.description,
                                   domain |-> Get(details, "domain", S_Unknown),
                                   range |-> Get(details, "range", S_Unknown)]))
             ELSE ExtractFrom(text, n + 1, relations)

extract_relations(text) == ExtractFrom(lower(text), 1, <<>>)

\* if key: neither None (no 'relation' entry) nor the empty string.
KeyTruthy(relation) == "relation" \in DOMAIN relation /\ relation.relation # S_empty

\* The entry add_custom_relation stores under the key.
CustomEntry(relation) ==
    [description |-> Get(relation, "description", S_empty),
     domain |-> Get(relation, "domain", S_Unknown),
     range |-> Get(relation, "range", S_Unknown)]

\* add_custom_relation: <<custom_relations, all_relations>> after the call.
add_custom_relation(relation) ==
    IF KeyTruthy(relation)
    THEN <<DictSet(custom_relations, relation.relation, CustomEntry(relation)),
           DictSet(all_relations, relation.relation, CustomEntry(relation))>>
    ELSE <<custom_relations, all_relations>>

(***************************************************************************)
(* KnowledgeGraphBuilder                                                   *)
(***************************************************************************)

WD == <<104, 116, 116, 112, 58, 47, 47, 119, 119, 119, 46, 119, 105, 107, 105, 100, 97, 116, 97, 46, 111, 114, 103, 47, 101, 110, 116, 105, 116, 121, 47>>  \* "http://www.wikidata.org/entity/"
WDT == <<104, 116, 116, 112, 58, 47, 47, 119, 119, 119, 46, 119, 105, 107, 105, 100, 97, 116, 97, 46, 111, 114, 103, 47, 112, 114, 111, 112, 47, 100, 105, 114, 101, 99, 116, 47>>  \* "http://www.wikidata.org/prop/direct/"
SCHEMA == <<104, 116, 116, 112, 58, 47, 47, 115, 99, 104, 101, 109, 97, 46, 111, 114, 103, 47>>  \* "http://schema.org/"
RDF == <<104, 116, 116, 112, 58, 47, 47, 119, 119, 119, 46, 119, 51, 46, 111, 114, 103, 47, 49, 57, 57, 57, 47, 48, 50, 47, 50, 50, 45, 114, 100, 102, 45, 115, 121, 110, 116, 97, 120, 45, 110, 115, 35>>  \* "http://www.w3.org/1999/02/22-rdf-syntax-ns#"
RDFS == <<104, 116, 116, 112, 58, 47, 47, 119, 119, 119, 46, 119, 51, 46, 111, 114, 103, 47, 50, 48, 48, 48, 47, 48, 49, 47, 114, 100, 102, 45, 115, 99, 104, 101, 109, 97, 35>>  \* "http://www.w3.org/2000/01/rdf-schema#"
S_Document == <<68, 111, 99, 117, 109, 101, 110, 116>>  \* "Document"
S_Source_Document == <<83, 111, 117, 114, 99, 101, 32, 68, 111, 99, 117, 109, 101, 110, 116>>  \* "Source Document"
S_CompetencyQuestion_ == <<67, 111, 109, 112, 101, 116, 101, 110, 99, 121, 81, 117, 101, 115, 116, 105, 111, 110, 95>>  \* "CompetencyQuestion_"
S_type == <<116, 121, 112, 101>>  \* "type"
S_label == <<108, 97, 98, 101, 108>>  \* "label"
S_comment == <<99, 111, 109, 109, 101, 110, 116>>  \* "comment"
S_CreativeWork == <<67, 114, 101, 97, 116, 105, 118, 101, 87, 111, 114, 107>>  \* "CreativeWork"
S_mentions == <<109, 101, 110, 116, 105, 111, 110, 115>>  \* "mentions"
S_Property == <<80, 114, 111, 112, 101, 114, 116, 121>>  \* "Property"
S_Question == <<81, 117, 101, 115, 116, 105, 111, 110>>  \* "Question"
S_hasPart == <<104, 97, 115, 80, 97, 114, 116>>  \* "hasPart"

\* rdflib terms: a URIRef, and a Literal with its language ("" for none).
URIRef(u) == [kind |-> "URIRef", value |-> u, lang |-> ""]

Literal(v, lang) == [kind |-> "Literal", value |-> v, lang |-> lang]

\* str(n) for n >= 0.
RECURSIVE str_int(_)
str_int(n) == IF n < 10 THEN <<48 + n>> ELSE str_int(n \div 10) \o <<48 + (n % 10)>>

\* extract_entities, for the entities (text, label) the spaCy pipeline finds in the text.
extract_entities(ents) == IF nlp THEN ents ELSE <<>>

doc_uri == URIRef(WD \o S_Document)

\* DocTriples without the label of the document.
DocTriples_TypeOnly ==
    { <<doc_uri, URIRef(RDF \o S_type), URIRef(SCHEMA \o S_CreativeWork)>> }

DocTriples ==
    { <<doc_uri, URIRef(RDF \o S_type), URIRef(SCHEMA \o S_CreativeWork)>>,
      <<doc_uri, URIRef(RDFS \o S_label), Literal(S_Source_Document, "en")>> }

entity_uri(entity) == URIRef(WD \o sanitize_uri(entity.text))

EntityTriples(entity) ==
    { <<entity_uri(entity), URIRef(RDF \o S_type), URIRef(SCHEMA \o entity.label)>>,
      <<entity_uri(entity), URIRef(RDFS \o S_label), Literal(entity.text, "en")>>,
      <<doc_uri, URIRef(SCHEMA \o S_mentions), entity_uri(entity)>> }

relation_uri(relation) == URIRef(WDT \o sanitize_uri(relation.relation))

RelationTriples(relation) ==
    { <<relation_uri(relation), URIRef(RDF \o S_type), URIRef(SCHEMA \o S_Property)>>,
      <<relation_uri(relation), URIRef(RDFS \o S_label), Literal(relation.relation, "")>>,
      <<relation_uri(relation), URIRef(RDFS \o S_comment), Literal(relation.description, "")>> }

\* question_uri counting the questions from 0.
question_uri_FromZero(idx) == URIRef(WD \o S_CompetencyQuestion_ \o str_int(idx - 1))

question_uri(idx) == URIRef(WD \o S_CompetencyQuestion_ \o str_int(idx))

QuestionTriples(idx, question) ==
    { <<question_uri(idx), URIRef(RDF \o S_type), URIRef(SCHEMA \o S_Question)>>,
      <<question_uri(idx), URIRef(RDFS \o S_label), Literal(question, "en")>>,
      <<doc_uri, URIRef(SCHEMA \o S_hasPart), question_uri(idx)>> }

\* The triples of the graph build_knowledge_graph serializes; ents are the
\* entities the spaCy pipeline finds in the text.
build_knowledge_graph(ents, relations, competency_questions) ==
    LET entities == extract_entities(ents)
    IN  DocTriples
        \cup UNION {EntityTriples(entities[i]) : i \in 1..Len(entities)}
        \cup UNION {RelationTriples(relations[i]) : i \in 1..Len(relations)}
        \cup UNION {QuestionTriples(i, competency_questions[i]) :
                        i \in 1..Len(competency_questions)}

(***************************************************************************)
(* CompetencyQuestionGenerator                                             *)
(***************************************************************************)

S_PERSON == <<80, 69, 82, 83, 79, 78>>  \* "PERSON"
S_ORG == <<79, 82, 71>>  \* "ORG"
S_GPE == <<71, 80, 69>>  \* "GPE"
S_DATE == <<68, 65, 84, 69>>  \* "DATE"
S_What_is_the_ == <<87, 104, 97, 116, 32, 105, 115, 32, 116, 104, 101, 32>>  \* "What is the "
S_of_ == <<32, 111, 102, 32>>  \* " of "
S_question_mark == <<63>>  \* "?"

\* The entity types generate_questions asks about.
QuestionTypes == <<S_PERSON, S_ORG, S_GPE, S_DATE>>

\* The loop of generate_questions over the entities of the document: one
\* question for every entity of a type asked about, in entity order.
RECURSIVE QuestionsFor(_)
QuestionsFor(entities) ==
    IF entities = <<>> THEN <<>>
    ELSE (IF InList(Head(entities).label, QuestionTypes)
          THEN <<S_What_is_the_ \o lower(Head(entities).label) \o S_of_
                     \o Head(entities).text \o S_question_mark>>
          ELSE <<>>)
         \o QuestionsFor(Tail(entities))

\* list[:stop]: a negative stop counts from the end of the list.
SliceTo(list, stop) ==
    LET n == Len(list)
        k == IF stop < 0 THEN (IF n + stop < 0 THEN 0 ELSE n + stop)
             ELSE IF stop > n THEN n ELSE stop
    IN  SubSeq(list, 1, k)

\* generate_questions(document, max_questions); entities are the entities the
\* spaCy pipeline finds in the document.
generate_questions(entities, max_questions) ==
    SliceTo(QuestionsFor(entities), max_questions)

(***************************************************************************)
(* KnowledgeGraphOrchestrator and the command line                         *)
(***************************************************************************)

S_turtle == <<116, 117, 114, 116, 108, 101>>  \* "turtle"

\* The default of max_questions.
DefaultMaxQuestions == 3

\* The outcome of a pipeline run: the steps started, in order, the exception
\* that ended it ("None" when it returned) and the graph returned.
Raised(steps, exc, message) == [steps |-> steps, exc |-> exc, message |-> message, kg |-> {}]

\* generate_knowledge_graph(doc_path, max_questions, output_format).  doc is
\* what textract makes of the file at doc_path: None when it raises, the
\* text otherwise; entities are the entities the spaCy pipeline finds in the
\* text; raises names the step in which the spaCy pipeline or the
\* serializer raises, "none" when neither does.
generate_knowledge_graph(doc, entities, max_questions, output_format, raises) ==
    LET text == doc[1]
        s1 == <<"textract.process">>
        s2 == Append(s1, "generate_questions")
        s3 == Append(s2, "extract_relations")
        s4 == Append(s3, "match_relations")
        s5 == Append(s4, "build_knowledge_graph")
        competency_questions == generate_questions(entities, max_questions)
        relations == extract_relations(text)
        matched_relations == match_relations(relations.ret)
    IN  IF doc = None
        THEN Raised(s1, "ValueError", "Could not extract text")
        ELSE IF raises = "generate_questions"
        THEN Raised(s2, "Exception", "generate_questions")
        ELSE IF relations.exc # "None"
        THEN Raised(s3, relations.exc, "extract_relations")
        ELSE IF raises = "build_knowledge_graph"
        THEN Raised(s5, "Exception", "build_knowledge_graph")
        ELSE IF lower(output_format) # S_turtle
        THEN Raised(s5, "ValueError", "Unsupported output format")
        ELSE [steps |-> s5, exc |-> "None", message |-> "",
              kg |-> build_knowledge_graph(entities, matched_relations,
                                           competency_questions)]

\* What the output file holds: the whole serialization of the graph, or, when
\* writing it failed, the part of it that had reached the file, given by the
\* number of complete statements in it (0 for an empty file).
WholeFile(kg) == [whole |-> TRUE, statements |-> Cardinality(kg), kg |-> kg]

PartialFile(statements) == [whole |-> FALSE, statements |-> statements]

\* The outcome of the command line: the steps of the pipeline started, the
\* exit code, and the output file: None when it was not opened for writing,
\* else what it holds.
Exit(steps, exit_code, file) == [steps |-> steps, exit_code |-> exit_code, file |-> file]

\* main(): argparse admits only the choice 'turtle' and exits with 2 on any
\* other; KnowledgeGraphOrchestrator() is built outside the try block, and
\* when the spaCy model cannot be loaded its exception ends the process with
\* exit code 1 before any step; an exception of the pipeline, of open() or
\* of writing is printed and the exit code is 1.  io names the file
\* operation that raises, "none" when neither does, and, for a failing
\* write, the number of complete statements that had reached the file.
main(output_format, spacy_model, doc, entities, max_questions, raises, io) ==
    LET run == generate_knowledge_graph(doc, entities, max_questions, output_format, raises)
    IN  IF output_format # S_turtle THEN Exit(<<>>, 2, None)
        ELSE IF ~spacy_model THEN Exit(<<>>, 1, None)
        ELSE IF run.exc # "None" THEN Exit(run.steps, 1, None)
        ELSE IF io.raises = "open" THEN Exit(run.steps, 1, None)
        ELSE IF io.raises = "write"
        THEN Exit(run.steps, 1, Some(PartialFile(io.written)))
        ELSE Exit(run.steps, 0, Some(WholeFile(run.kg)))

(***************************************************************************)
(* Inputs of the calls                                                     *)
(***************************************************************************)

\* Longest list of records, properties, entities or questions passed to a call.
MaxItems == 2

\* Most add_custom_relation calls in a run.
MaxAdds == 2

S_Douglas_Adams == <<68, 111, 117, 103, 108, 97, 115, 32, 65, 100, 97, 109, 115>>  \* "Douglas Adams"
S_text_CompetencyQuestion_1 == <<67, 111, 109, 112, 101, 116, 101, 110, 99, 121, 81, 117, 101, 115, 116, 105, 111, 110, 32, 49>>  \* "CompetencyQuestion 1"
S_Who_was_Douglas_Adams == <<87, 104, 111, 32, 119, 97, 115, 32, 68, 111, 117, 103, 108, 97, 115, 32, 65, 100, 97, 109, 115, 63>>  \* "Who was Douglas Adams?"
S_What_is_Douglas_Adams_known_for == <<87, 104, 97, 116, 32, 105, 115, 32, 68, 111, 117, 103, 108, 97, 115, 32, 65, 100, 97, 109, 115, 32, 107, 110, 111, 119, 110, 32, 102, 111, 114, 63>>  \* "What is Douglas Adams known for?"
S_The_primary_occupation_of_a_person == <<84, 104, 101, 32, 112, 114, 105, 109, 97, 114, 121, 32, 111, 99, 99, 117, 112, 97, 116, 105, 111, 110, 32, 111, 102, 32, 97, 32, 112, 101, 114, 115, 111, 110>>  \* "The primary occupation of a person"
S_20_percent == <<50, 48, 37>>  \* "20%"
S_Percentage_test == <<80, 101, 114, 99, 101, 110, 116, 97, 103, 101, 32, 116, 101, 115, 116>>  \* "Percentage test"
S_ceo == <<99, 101, 111>>  \* "ceo"
S_CEO_upper == <<67, 69, 79>>  \* "CEO"
S_Chief_executive == <<67, 104, 105, 101, 102, 32, 101, 120, 101, 99, 117, 116, 105, 118, 101>>  \* "Chief executive"
S_Chief_executive_officer == <<67, 104, 105, 101, 102, 32, 101, 120, 101, 99, 117, 116, 105, 118, 101, 32, 111, 102, 102, 105, 99, 101, 114>>  \* "Chief executive officer"
S_research_area == <<114, 101, 115, 101, 97, 114, 99, 104, 95, 97, 114, 101, 97>>  \* "research_area"
S_The_primary_field_of_research_or_study == <<84, 104, 101, 32, 112, 114, 105, 109, 97, 114, 121, 32, 102, 105, 101, 108, 100, 32, 111, 102, 32, 114, 101, 115, 101, 97, 114, 99, 104, 32, 111, 114, 32, 115, 116, 117, 100, 121>>  \* "The primary field of research or study"
S_Born_padded == <<32, 66, 111, 114, 110, 32>>  \* " Born "
S_jobs == <<106, 111, 98, 115>>  \* "jobs"
S_Job_capital == <<74, 111, 98>>  \* "Job"
S_jo == <<106, 111>>  \* "jo"
S_ob == <<111, 98>>  \* "ob"
S_text_occupation == <<87, 104, 97, 116, 32, 105, 115, 32, 116, 104, 101, 32, 111, 99, 99, 117, 112, 97, 116, 105, 111, 110, 32, 111, 102, 32, 68, 111, 117, 103, 108, 97, 115, 32, 65, 100, 97, 109, 115, 63>>  \* "What is the occupation of Douglas Adams?"
S_text_CEO == <<87, 104, 111, 32, 105, 115, 32, 116, 104, 101, 32, 67, 69, 79, 63>>  \* "Who is the CEO?"
S_text_Date_Of_Birth == <<68, 97, 116, 101, 32, 79, 102, 32, 66, 105, 114, 116, 104, 32, 97, 110, 100, 32, 110, 111, 116, 97, 98, 108, 101, 32, 119, 111, 114, 107>>  \* "Date Of Birth and notable work"
S_text_nothing == <<78, 111, 116, 104, 105, 110, 103, 32, 116, 111, 32, 115, 101, 101, 32, 104, 101, 114, 101>>  \* "Nothing to see here"
S_text_research_area == <<114, 101, 115, 101, 97, 114, 99, 104, 95, 97, 114, 101, 97, 32, 111, 102, 32, 116, 104, 101, 32, 99, 101, 111>>  \* "research_area of the ceo"

\* a _ - % space / e-acute
SanitizeAlphabet == {97, 95, 45, 37, 32, 47, 233}

SanitizeInputs == BoundedSeq(SanitizeAlphabet, MaxLen) \cup {S_20_percent, S_Douglas_Adams}

\* Values of similarity_threshold: 0, 0.5, 0.8 (the default), 1 and 1.5.
Thresholds == {<<0, 1>>, <<1, 2>>, <<4, 5>>, <<1, 1>>, <<3, 2>>}

SimilarInputs ==
    {S_born, S_date_of_birth, S_Born_padded, S_birthdate, S_birth, S_job, S_jobs,
     S_career, S_empty}

MatchRecords ==
    { [relation |-> S_occupation, description |-> S_desc_occupation,
       domain |-> S_Person, range |-> S_Occupation],
      [relation |-> S_job, description |-> S_Chief_executive,
       domain |-> S_Person, range |-> S_Unknown],
      [relation |-> S_date_of_birth, description |-> S_desc_date_of_birth,
       domain |-> S_Person, range |-> S_Date],
      [relation |-> S_Job_capital, description |-> S_Chief_executive,
       domain |-> S_Unknown, range |-> S_Unknown] }

SourceProps == {S_job, S_empty}

TargetProps == {S_jo, S_ob, S_empty}

\* What json.load returns for the config file of the constructor: no file, and
\* a file that overrides a standard relation and adds one without domain and range.
ConfigFiles ==
    { <<>>,
      << <<S_occupation, [description |-> S_The_primary_occupation_of_a_person,
                          domain |-> S_Person, range |-> S_Occupation]>>,
         <<S_research_area, [description |-> S_The_primary_field_of_research_or_study]>> >> }

\* Arguments of add_custom_relation.
AddInputs ==
    { [relation |-> S_ceo, description |-> S_Chief_executive,
       domain |-> S_Person, range |-> S_Occupation],
      [relation |-> S_ceo, description |-> S_Chief_executive_officer],
      [relation |-> S_CEO_upper, description |-> S_Chief_executive],
      [relation |-> S_occupation, description |-> S_Percentage_test, range |-> S_Occupation],
      [relation |-> S_empty, description |-> S_Chief_executive],
      [description |-> S_Chief_executive] }

Texts ==
    {S_text_occupation, S_text_CEO, S_text_Date_Of_Birth, S_text_nothing,
     S_text_research_area, S_empty}

\* Entities the spaCy pipeline may find in a text.
Entities ==
    { [text |-> S_Douglas_Adams, label |-> S_PERSON],
      [text |-> S_text_CompetencyQuestion_1, label |-> S_ORG],
      [text |-> S_Document, label |-> S_ORG] }

BuildRelations ==
    { [relation |-> S_occupation, description |-> S_The_primary_occupation_of_a_person,
       domain |-> S_Person, range |-> S_Occupation],
      [relation |-> S_20_percent, description |-> S_Percentage_test,
       domain |-> S_Unknown, range |-> S_Unknown] }

Questions == {S_Who_was_Douglas_Adams, S_What_is_Douglas_Adams_known_for}

S_WORK_OF_ART == <<87, 79, 82, 75, 95, 79, 70, 95, 65, 82, 84>>  \* "WORK_OF_ART"
S_London == <<76, 111, 110, 100, 111, 110>>  \* "London"
S_1952 == <<49, 57, 53, 50>>  \* "1952"
S_HHGTTG == <<72, 72, 71, 84, 84, 71>>  \* "HHGTTG"

\* Entities the spaCy pipeline may find in a document, of types asked about
\* and of one that is not.
DocumentEntities ==
    { [text |-> S_Douglas_Adams, label |-> S_PERSON],
      [text |-> S_London, label |-> S_GPE],
      [text |-> S_1952, label |-> S_DATE],
      [text |-> S_HHGTTG, label |-> S_WORK_OF_ART] }

\* Values of --max-questions: the integers around zero up to one more than
\* the number of entities.
MaxQuestionsValues == (0 - MaxItems - 1)..(MaxItems + 1)

S_xml == <<120, 109, 108>>  \* "xml"
S_TURTLE_upper == <<84, 85, 82, 84, 76, 69>>  \* "TURTLE"

\* Values of output_format.
OutputFormats == {S_turtle, S_TURTLE_upper, S_xml}

\* What textract makes of the input file: None when it raises.
Documents == {None, Some(S_text_occupation), Some(S_text_nothing)}

\* Values of max_questions given to the orchestrator.
OrchestratorMaxQuestions == {1, DefaultMaxQuestions}

\* The steps of the pipeline that call the spaCy pipeline or the serializer.
StepFailures == {"none", "generate_questions", "build_knowledge_graph"}

\* Most complete statements a failed write is taken to leave in the file.
MaxWritten == 2

\* The file operations of main() that may raise; a write that fails, when
\* the buffer is flushed or the file closed, leaves a part of the
\* serialization in the file.
IoFailures ==
    {[raises |-> "none", written |-> 0], [raises |-> "open", written |-> 0]}
    \cup {[raises |-> "write", written |-> n] : n \in 0..MaxWritten}

\* What may be at config_path.
ConfigContents ==
    { [kind |-> "absent"], [kind |-> "unreadable"], [kind |-> "undecodable"],
      [kind |-> "invalid_json"], [kind |-> "too_deep"], [kind |-> "huge_integer"],
      [kind |-> "json", value |-> [t |-> "array"]],
      [kind |-> "json", value |-> [t |-> "string"]],
      [kind |-> "json", value |-> [t |-> "number"]],
      [kind |-> "json", value |-> [t |-> "null"]],
      [kind |-> "json", value |-> [t |-> "object", items |-> <<>>]],
      [kind |-> "json",
       value |-> [t |-> "object",
                  items |-> << <<S_occupation, [nondict |-> "number"]>> >>]],
      [kind |-> "json",
       value |-> [t |-> "object",
                  items |-> << <<S_research_area, [domain |-> S_Person]>> >>]],
      [kind |-> "json",
       value |-> [t |-> "object",
                  items |-> << <<S_ceo, [nondict |-> "string"]>>,
                               <<S_research_area,
                                 [description |-> S_The_primary_field_of_research_or_study]>> >>]],
      [kind |-> "json",
       value |-> [t |-> "object",
                  items |-> << <<S_ceo, [description |-> S_Chief_executive,
                                         domain |-> S_Person,
                                         range |-> S_Occupation]>> >>]] }

(***************************************************************************)
(* The calls                                                               *)
(***************************************************************************)

\* KnowledgeGraphBuilder.sanitize_uri(value)
SanitizeUri ==
    /\ last = NoCall
    /\ \E value \in SanitizeInputs :
           last' = [op |-> "sanitize_uri", args |-> value,
                    ret |-> sanitize_uri(value), again |-> FALSE]
    /\ UNCHANGED <<similarity_threshold, semantic_equivalence, custom_relations,
                   all_relations, nlp, adds>>

\* sanitize_uri applied to the string the last sanitize_uri call returned.
SanitizeUriAgain ==
    /\ last.op = "sanitize_uri"
    /\ ~last.again
    /\ last' = [op |-> "sanitize_uri", args |-> last.ret,
                ret |-> sanitize_uri(last.ret), again |-> TRUE]
    /\ UNCHANGED <<similarity_threshold, semantic_equivalence, custom_relations,
                   all_relations, nlp, adds>>

\* OntologyMatcher.is_semantically_similar(property1, property2)
IsSemanticallySimilar ==
    /\ last = NoCall
    /\ \E property1 \in SimilarInputs, property2 \in SimilarInputs :
           last' = [op |-> "is_semantically_similar",
                    args |-> <<property1, property2>>,
                    ret |-> is_semantically_similar(property1, property2)]
    /\ UNCHANGED <<similarity_threshold, semantic_equivalence, custom_relations,
                   all_relations, nlp, adds>>

\* OntologyMatcher.match_relations(relations)
MatchRelations ==
    /\ last = NoCall
    /\ \E relations \in BoundedSeq(MatchRecords, MaxItems) :
           last' = [op |-> "match_relations", args |-> relations,
                    ret |-> match_relations(relations),
                    after |-> InputAfterMatch(relations),
                    returned |-> ReturnedByMatch(relations)]
    /\ UNCHANGED <<similarity_threshold, semantic_equivalence, custom_relations,
                   all_relations, nlp, adds>>

\* OntologyMatcher.generate_ontology_mapping(source_properties, target_ontology)
GenerateOntologyMapping ==
    /\ last = NoCall
    /\ \E source_properties \in BoundedSeq(SourceProps, MaxItems),
          target_ontology \in BoundedSeq(TargetProps, MaxItems) :
           last' = [op |-> "generate_ontology_mapping",
                    args |-> <<source_properties, target_ontology>>,
                    ret |-> generate_ontology_mapping(source_properties, target_ontology)]
    /\ UNCHANGED <<similarity_threshold, semantic_equivalence, custom_relations,
                   all_relations, nlp, adds>>

\* A call of the extractor may follow add_custom_relation, which returns nothing.
CanCall == last.op \in {"none", "add_custom_relation"}

\* RelationExtractor.extract_relations(text)
ExtractRelations ==
    /\ CanCall
    /\ \E text \in Texts :
           LET r == extract_relations(text)
           IN  last' = [op |-> "extract_relations", args |-> text,
                        ret |-> r.ret, exc |-> r.exc]
    /\ UNCHANGED <<similarity_threshold, semantic_equivalence, custom_relations,
                   all_relations, nlp, adds>>

\* RelationExtractor.add_custom_relation(relation)
AddCustomRelation ==
    /\ CanCall
    /\ adds < MaxAdds
    /\ \E relation \in AddInputs :
           /\ custom_relations' = add_custom_relation(relation)[1]
           /\ all_relations' = add_custom_relation(relation)[2]
           /\ last' = [op |-> "add_custom_relation", args |-> relation]
    /\ adds' = adds + 1
    /\ UNCHANGED <<similarity_threshold, semantic_equivalence, nlp>>

\* KnowledgeGraphBuilder.build_knowledge_graph(text, relations, competency_questions),
\* the text given by the entities the spaCy pipeline finds in it.
BuildKnowledgeGraph ==
    /\ last = NoCall
    /\ \E ents \in (IF nlp THEN BoundedSeq(Entities, MaxItems) ELSE {<<>>}),
          relations \in BoundedSeq(BuildRelations, MaxItems),
          competency_questions \in BoundedSeq(Questions, MaxItems) :
           last' = [op |-> "build_knowledge_graph",
                    args |-> [entities |-> extract_entities(ents),
                              relations |-> relations,
                              questions |-> competency_questions],
                    ret |-> build_knowledge_graph(ents, relations, competency_questions)]
    /\ UNCHANGED <<similarity_threshold, semantic_equivalence, custom_relations,
                   all_relations, nlp, adds>>

\* CompetencyQuestionGenerator.generate_questions(document, max_questions),
\* the document given by the entities the spaCy pipeline finds in it.
GenerateQuestions ==
    /\ last = NoCall
    /\ \E entities \in BoundedSeq(DocumentEntities, MaxItems),
          max_questions \in MaxQuestionsValues :
           last' = [op |-> "generate_questions",
                    args |-> [entities |-> entities, max_questions |-> max_questions],
                    ret |-> generate_questions(entities, max_questions)]
    /\ UNCHANGED <<similarity_threshold, semantic_equivalence, custom_relations,
                   all_relations, nlp, adds>>

\* KnowledgeGraphOrchestrator.generate_knowledge_graph(doc_path, max_questions,
\* output_format)
GenerateKnowledgeGraph ==
    /\ last = NoCall
    /\ \E doc \in Documents, entities \in BoundedSeq(DocumentEntities, MaxItems - 1),
          max_questions \in OrchestratorMaxQuestions,
          output_format \in OutputFormats, raises \in StepFailures :
           last' = [op |-> "generate_knowledge_graph",
                    args |-> [doc |-> doc, entities |-> entities,
                              max_questions |-> max_questions,
                              output_format |-> output_format, raises |-> raises],
                    ret |-> generate_knowledge_graph(doc, entities, max_questions,
                                                     output_format, raises)]
    /\ UNCHANGED <<similarity_threshold, semantic_equivalence, custom_relations,
                   all_relations, nlp, adds>>

\* main() of the command line; spacy_model tells whether the spaCy model can
\* be loaded when the orchestrator is built.
CliMain ==
    /\ last = NoCall
    /\ \E doc \in Documents, entities \in BoundedSeq(DocumentEntities, MaxItems - 1),
          max_questions \in OrchestratorMaxQuestions,
          output_format \in OutputFormats, raises \in StepFailures,
          io \in IoFailures, spacy_model \in BOOLEAN :
           LET run == generate_knowledge_graph(doc, entities, max_questions,
                                               output_format, raises)
           IN  /\ io.written <= Cardinality(run.kg)
               /\ last' = [op |-> "main",
                           args |-> [doc |-> doc, entities |-> entities,
                                     max_questions |-> max_questions,
                                     output_format |-> output_format,
                                     raises |-> raises, io |-> io,
                                     spacy_model |-> spacy_model],
                           run |-> run,
                           ret |-> main(output_format, spacy_model, doc, entities,
                                        max_questions, raises, io)]
    /\ UNCHANGED <<similarity_threshold, semantic_equivalence, custom_relations,
                   all_relations, nlp, adds>>

\* extractor = RelationExtractor(config_path): when the constructor raises,
\* the extractor the program had stays as it was.
ConstructExtractor ==
    /\ last = NoCall
    /\ \E config \in ConfigContents :
           LET made == Construct(config)
           IN  /\ last' = [op |-> "__init__", args |-> config, exc |-> made.exc]
               /\ IF made.exc = "None"
                  THEN /\ custom_relations' = made.custom
                       /\ all_relations' = made.all
                  ELSE UNCHANGED <<custom_relations, all_relations>>
    /\ UNCHANGED <<similarity_threshold, semantic_equivalence, nlp, adds>>

\* The caller takes the result of the last call.
Return ==
    /\ last # NoCall
    /\ last' = NoCall
    /\ UNCHANGED <<similarity_threshold, semantic_equivalence, custom_relations,
                   all_relations, nlp, adds>>

(***************************************************************************)
(* Specifications                                                          *)
(***************************************************************************)

\* The objects after construction: OntologyMatcher(similarity_threshold),
\* RelationExtractor(config_path), KnowledgeGraphBuilder().
Init ==
    /\ last = NoCall
    /\ similarity_threshold \in Thresholds
    /\ semantic_equivalence = BuiltinEquivalence
    /\ \E loaded \in ConfigFiles :
           /\ custom_relations = RelationExtractor__init__(loaded)[1]
           /\ all_relations = RelationExtractor__init__(loaded)[2]
    /\ nlp \in BOOLEAN
    /\ adds = 0

Next ==
    \/ SanitizeUri
    \/ SanitizeUriAgain
    \/ IsSemanticallySimilar
    \/ MatchRelations
    \/ GenerateOntologyMapping
    \/ ExtractRelations
    \/ AddCustomRelation
    \/ BuildKnowledgeGraph
    \/ GenerateQuestions
    \/ Return

Spec == Init /\ [][Next]_vars

\* The defaults: OntologyMatcher(), RelationExtractor(), the spaCy model installed.
DefaultMatcher == similarity_threshold = <<4, 5>> /\ semantic_equivalence = BuiltinEquivalence

DefaultExtractor ==
    /\ custom_relations = RelationExtractor__init__(<<>>)[1]
    /\ all_relations = RelationExtractor__init__(<<>>)[2]
    /\ adds = 0

\* The sanitizer alone.
InitSanitizer == Init /\ DefaultMatcher /\ DefaultExtractor /\ nlp

NextSanitizer == SanitizeUri \/ SanitizeUriAgain \/ Return

SpecSanitizer == InitSanitizer /\ [][NextSanitizer]_vars

\* The ontology matcher alone, for every threshold.
InitMatcher == Init /\ DefaultExtractor /\ nlp

NextMatcher == IsSemanticallySimilar \/ MatchRelations \/ GenerateOntologyMapping \/ Return

SpecMatcher == InitMatcher /\ [][NextMatcher]_vars

\* The relation extractor alone, for every config file.
InitExtractor == Init /\ DefaultMatcher /\ nlp

NextExtractor == ExtractRelations \/ AddCustomRelation \/ Return

SpecExtractor == InitExtractor /\ [][NextExtractor]_vars

\* The graph builder alone, with and without the spaCy model.
InitBuilder == Init /\ DefaultMatcher /\ DefaultExtractor

NextBuilder == BuildKnowledgeGraph \/ Return

SpecBuilder == InitBuilder /\ [][NextBuilder]_vars

\* The question generator alone.
InitGenerator == Init /\ DefaultMatcher /\ DefaultExtractor /\ nlp

NextGenerator == GenerateQuestions \/ Return

SpecGenerator == InitGenerator /\ [][NextGenerator]_vars

\* The orchestrator and the command line, which build every component with
\* its defaults; an orchestrator that was built has the spaCy model, which
\* CompetencyQuestionGenerator() loads or raises.
InitOrchestrator == Init /\ DefaultMatcher /\ DefaultExtractor /\ nlp

NextOrchestrator == GenerateKnowledgeGraph \/ CliMain \/ Return

SpecOrchestrator == InitOrchestrator /\ [][NextOrchestrator]_vars

\* The relation extractor constructed from whatever is at config_path, and its
\* calls.
InitLoader == Init /\ DefaultMatcher /\ DefaultExtractor /\ nlp

NextLoader == ConstructExtractor \/ ExtractRelations \/ AddCustomRelation \/ Return

SpecLoader == InitLoader /\ [][NextLoader]_vars

(***************************************************************************)
(* Claims about sanitize_uri (SpecSanitizer)                               *)
(***************************************************************************)

\* C1: sanitize_uri is idempotent: sanitizing the string a sanitize_uri call
\* returned gives that string back.
C1_Idempotent ==
    (last.op = "sanitize_uri" /\ last.again) => last.ret = last.args

\* x occurs in the string s.
HasChar(s, x) == \E i \in 1..Len(s) : s[i] = x

\* The characters of s that satisfy Keep (a set of code points), in order.
RECURSIVE Filter(_, _)
Filter(s, Keep) ==
    IF s = <<>> THEN <<>>
    ELSE (IF Head(s) \in Keep THEN <<Head(s)>> ELSE <<>>) \o Filter(Tail(s), Keep)

AsciiAlnum == (48..57) \cup (65..90) \cup (97..122)

\* The digits 0-9 and A-F.
UpperHex == (48..57) \cup (65..70)

\* C9 as stated: the result is the input with every character that is not
\* alphanumeric or underscore replaced by an underscore and runs of underscores
\* collapsed, and holds no '%', no '/' and no whitespace.
C9_Original ==
    last.op = "sanitize_uri" =>
        /\ last.ret = CollapseUnderscores(
                          [i \in 1..Len(last.args) |->
                              IF IsWord(last.args[i]) THEN last.args[i] ELSE 95])
        /\ \A i \in 1..Len(last.ret) : last.ret[i] \notin {37, 47} /\ ~IsSpace(last.ret[i])

\* C9 amended: the result holds only ASCII letters, digits, '_', '-' and '%'
\* (so no '/', no whitespace), never two underscores in a row, and '%' only as
\* the start of a %XX escape of a non-ASCII letter or digit of the input; for
\* an ASCII input there is no '%' at all, the letters, digits and hyphens are
\* those of the input in order, and every other character has become part of
\* an underscore.
C9_Sanitized ==
    last.op = "sanitize_uri" =>
        LET x == last.args
            r == last.ret
        IN  /\ \A i \in 1..Len(r) : r[i] \in AsciiAlnum \cup {95, 45, 37}
            /\ \A i \in 1..(Len(r) - 1) : ~(r[i] = 95 /\ r[i + 1] = 95)
            /\ \A i \in 1..Len(r) :
                   r[i] = 37 => /\ i + 2 <= Len(r)
                                /\ r[i + 1] \in UpperHex
                                /\ r[i + 2] \in UpperHex
            /\ HasChar(r, 37) => \E i \in 1..Len(x) : x[i] >= 128 /\ IsWord(x[i])
            /\ (\A i \in 1..Len(x) : x[i] < 128) =>
                   /\ Filter(r, AsciiAlnum \cup {45}) = Filter(x, AsciiAlnum \cup {45})
                   /\ Len(r) <= Len(x)
                   /\ HasChar(r, 95) <=> \E i \in 1..Len(x) : x[i] \notin AsciiAlnum \cup {45}

\* sanitize_uri("20%") returned "20_".
C9_Witness ==
    /\ last.op = "sanitize_uri"
    /\ last.args = S_20_percent
    /\ last.ret = <<50, 48, 95>>

(***************************************************************************)
(* Claims about the ontology matcher (SpecMatcher)                         *)
(***************************************************************************)

\* Both strings are variants of one equivalence group.
SameGroup(a, b) ==
    \E g \in 1..Len(semantic_equivalence) :
        InList(a, semantic_equivalence[g][2]) /\ InList(b, semantic_equivalence[g][2])

\* C2: is_semantically_similar returns true whenever the trimmed, lowercased
\* strings are equal or are variants of the same equivalence group, whatever
\* the threshold and their fuzzy ratio.
C2_ExactAndGroupedAreSimilar ==
    last.op = "is_semantically_similar" =>
        LET a == strip(lower(last.args[1]))
            b == strip(lower(last.args[2]))
        IN  (a = b \/ SameGroup(a, b) \/ SameGroup(last.args[1], last.args[2]))
                => last.ret = TRUE

\* "born" and "date of birth" were found similar through their group although
\* their ratio is below the default threshold.
C2_Witness ==
    /\ last.op = "is_semantically_similar"
    /\ last.args = <<S_born, S_date_of_birth>>
    /\ similarity_threshold = <<4, 5>>
    /\ ~RatGeq(ratio(S_born, S_date_of_birth), similarity_threshold)
    /\ last.ret = TRUE

\* A table in which "job" is a variant of two groups.
OverlappingGroups ==
    << <<S_work, <<S_creation, S_job>> >>,
       <<S_occupation, <<S_profession, S_job, S_career>> >> >>

\* C3: match_relations returns one record per input record, in input order;
\* its relation is the name of the first group (in declaration order) that
\* lists the input's relation, or the input's relation when no group does;
\* description, domain and range are the input's.  The first-group rule is
\* checked also on a table in which a variant belongs to two groups.
C3_MatchOneToOne ==
    last.op = "match_relations" =>
        /\ Len(last.ret) = Len(last.args)
        /\ \A i \in 1..Len(last.args) :
               LET in == last.args[i]
                   out == last.ret[i]
                   Lists(g) == InList(in.relation, semantic_equivalence[g][2])
               IN  /\ out.description = in.description
                   /\ out.domain = in.domain
                   /\ out.range = in.range
                   /\ DOMAIN out = DOMAIN in
                   /\ \A g \in 1..Len(semantic_equivalence) :
                          (Lists(g) /\ \A h \in 1..(g - 1) : ~Lists(h))
                              => out.relation = semantic_equivalence[g][1]
                   /\ (\A g \in 1..Len(semantic_equivalence) : ~Lists(g))
                          => out.relation = in.relation
                   /\ in.relation = S_job
                          => RefineRelationIn(OverlappingGroups, in).relation = S_work

\* A call that renamed "job" to "occupation" and passed "Job" through.
C3_Witness ==
    /\ last.op = "match_relations"
    /\ Len(last.args) = 2
    /\ last.args[1].relation = S_job /\ last.ret[1].relation = S_occupation
    /\ last.args[2].relation = S_Job_capital /\ last.ret[2].relation = S_Job_capital

\* C4: generate_ontology_mapping maps every source to the first target of
\* maximum ratio when that ratio is at least the threshold, and holds no entry
\* for any other source; for every threshold in [0, 1] and every target.
C4_MaxRatioMapping ==
    (/\ last.op = "generate_ontology_mapping"
     /\ RatGeq(similarity_threshold, <<0, 1>>)
     /\ RatGeq(<<1, 1>>, similarity_threshold)) =>
        LET sources == last.args[1]
            targets == last.args[2]
            r(s, k) == ratio(lower(s), lower(targets[k]))
            IsMax(s, k) == \A j \in 1..Len(targets) : RatGeq(r(s, k), r(s, j))
            Best(s) == SetMin({k \in 1..Len(targets) : IsMax(s, k)})
        IN  /\ DictKeys(last.ret) \subseteq {sources[n] : n \in 1..Len(sources)}
            /\ \A n \in 1..Len(sources) :
                   LET s == sources[n]
                   IN  IF targets # <<>> /\ RatGeq(r(s, Best(s)), similarity_threshold)
                       THEN DictHas(last.ret, s) /\ DictGet(last.ret, s) = targets[Best(s)]
                       ELSE ~DictHas(last.ret, s)

\* C11: match_relations does not mutate its input: after the call the input
\* list holds the same records, field for field, as before it, also where the
\* returned record was renamed; the returned records are the renamed copies;
\* and the equivalence groups are the ones the matcher was built with.
C11_InputNotMutated ==
    /\ semantic_equivalence = BuiltinEquivalence
    /\ last.op = "match_relations" =>
           /\ last.after = last.args
           /\ last.returned = last.ret

\* A call that renamed "job" to "occupation" in the record it returned.
C11_Witness ==
    /\ last.op = "match_relations"
    /\ \E i \in 1..Len(last.args) :
           /\ last.args[i].relation = S_job
           /\ last.returned[i].relation = S_occupation
           /\ last.after[i].relation = S_job

(***************************************************************************)
(* Claims about the relation extractor (SpecExtractor)                     *)
(***************************************************************************)

\* C5: for every relation name r of the vocabulary that occurs in the text
\* as a case-insensitive substring, extract_relations returns exactly one
\* record with relation r; when no name of the vocabulary occurs in the text,
\* it returns the empty list and raises nothing.
C5_ExtractsEveryOccurringRelation ==
    last.op = "extract_relations" =>
        LET Occurs(r) == Contains(lower(r), lower(last.args))
        IN  /\ \A r \in DictKeys(all_relations) :
                   Occurs(r) =>
                       Cardinality({i \in 1..Len(last.ret) : last.ret[i].relation = r}) = 1
            /\ (\A r \in DictKeys(all_relations) : ~Occurs(r))
                   => last.ret = <<>> /\ last.exc = "None"

\* The record extract_relations returns for the entry an add_custom_relation
\* call stored.
AddedRecord(relation) ==
    [relation |-> relation.relation,
     description |-> Get(relation, "description", S_empty),
     domain |-> Get(relation, "domain", S_Unknown),
     range |-> Get(relation, "range", S_Unknown)]

\* The vocabulary extract_relations uses holds exactly the keys of the standard
\* and of the user-supplied set, each once, with the user-supplied entry where
\* there is one and the standard entry otherwise.
VocabularyIsMerged ==
    /\ DictKeys(all_relations) =
           DictKeys(standard_relations) \cup DictKeys(custom_relations)
    /\ Cardinality(DictKeys(all_relations)) = Len(all_relations)
    /\ \A k \in DictKeys(all_relations) :
           DictGet(all_relations, k) =
               IF DictHas(custom_relations, k)
               THEN DictGet(custom_relations, k)
               ELSE DictGet(standard_relations, k)

\* C10: at all times the vocabulary extract_relations uses is the standard set
\* overridden by the user-supplied set; after add_custom_relation the key
\* carries the entry just added; and the extract_relations call that follows
\* an add_custom_relation returns the added relation, with the added entry,
\* when its name occurs in the text as a case-insensitive substring.
C10_AddedRelationIsMatched ==
    [][/\ VocabularyIsMerged
       /\ (last.op = "add_custom_relation" /\ KeyTruthy(last.args)) =>
              /\ DictHas(custom_relations, last.args.relation)
              /\ DictGet(custom_relations, last.args.relation) =
                     [description |-> Get(last.args, "description", S_empty),
                      domain |-> Get(last.args, "domain", S_Unknown),
                      range |-> Get(last.args, "range", S_Unknown)]
       /\ (/\ last.op = "add_custom_relation"
           /\ KeyTruthy(last.args)
           /\ last'.op = "extract_relations"
           /\ Contains(lower(last.args.relation), lower(last'.args)))
          => /\ last'.exc = "None"
             /\ \E i \in 1..Len(last'.ret) : last'.ret[i] = AddedRecord(last.args)]_vars

(***************************************************************************)
(* Claims about the graph builder (SpecBuilder)                            *)
(***************************************************************************)

S_Douglas_Adams_token == <<68, 111, 117, 103, 108, 97, 115, 95, 65, 100, 97, 109, 115>>  \* "Douglas_Adams"

\* One entity (Douglas Adams, PERSON), the relation occupation, one question.
C6_Scenario ==
    /\ last.op = "build_knowledge_graph"
    /\ last.args.entities = << [text |-> S_Douglas_Adams, label |-> S_PERSON] >>
    /\ last.args.relations =
           << [relation |-> S_occupation,
               description |-> S_The_primary_occupation_of_a_person,
               domain |-> S_Person, range |-> S_Occupation] >>
    /\ last.args.questions = << S_Who_was_Douglas_Adams >>

\* C6 as stated: the graph of the scenario holds exactly 12 distinct triples.
C6_TwelveTriples == C6_Scenario => Cardinality(last.ret) = 12

\* C6 amended: the graph of the scenario holds exactly 11 distinct triples: 2
\* of the document node (type, label), 3 of the entity (type, label, document
\* mentions entity), 3 of the relation (type, label, description) and 3 of the
\* question (type, label, document hasPart question).
C6_ElevenTriples ==
    C6_Scenario =>
        LET type == URIRef(RDF \o S_type)
            label == URIRef(RDFS \o S_label)
            doc == URIRef(WD \o S_Document)
            ent == URIRef(WD \o S_Douglas_Adams_token)
            rel == URIRef(WDT \o S_occupation)
            que == URIRef(WD \o S_CompetencyQuestion_ \o <<49>>)
        IN  /\ Cardinality(last.ret) = 11
            /\ last.ret =
                   { <<doc, type, URIRef(SCHEMA \o S_CreativeWork)>>,
                     <<doc, label, Literal(S_Source_Document, "en")>>,
                     <<ent, type, URIRef(SCHEMA \o S_PERSON)>>,
                     <<ent, label, Literal(S_Douglas_Adams, "en")>>,
                     <<doc, URIRef(SCHEMA \o S_mentions), ent>>,
                     <<rel, type, URIRef(SCHEMA \o S_Property)>>,
                     <<rel, label, Literal(S_occupation, "")>>,
                     <<rel, URIRef(RDFS \o S_comment),
                       Literal(S_The_primary_occupation_of_a_person, "")>>,
                     <<que, type, URIRef(SCHEMA \o S_Question)>>,
                     <<que, label, Literal(S_Who_was_Douglas_Adams, "en")>>,
                     <<doc, URIRef(SCHEMA \o S_hasPart), que>> }

\* The graph of the scenario was built.
C6_Witness == C6_Scenario /\ Cardinality(last.ret) = 11

\* C7: the graph holds, for every entity, its type, label and document-mentions
\* triples; for every relation, its Property-type, label and description
\* triples; for the question at 1-based position i, its Question-type triple,
\* a label triple with its text, and the document-hasPart triple.
C7_NothingDropped ==
    last.op = "build_knowledge_graph" =>
        LET type == URIRef(RDF \o S_type)
            label == URIRef(RDFS \o S_label)
            doc == URIRef(WD \o S_Document)
            g == last.ret
        IN  /\ \A i \in 1..Len(last.args.entities) :
                   LET e == last.args.entities[i]
                       u == URIRef(WD \o sanitize_uri(e.text))
                   IN  /\ <<u, type, URIRef(SCHEMA \o e.label)>> \in g
                       /\ <<u, label, Literal(e.text, "en")>> \in g
                       /\ <<doc, URIRef(SCHEMA \o S_mentions), u>> \in g
            /\ \A i \in 1..Len(last.args.relations) :
                   LET r == last.args.relations[i]
                       u == URIRef(WDT \o sanitize_uri(r.relation))
                   IN  /\ <<u, type, URIRef(SCHEMA \o S_Property)>> \in g
                       /\ <<u, label, Literal(r.relation, "")>> \in g
                       /\ <<u, URIRef(RDFS \o S_comment), Literal(r.description, "")>> \in g
            /\ \A i \in 1..Len(last.args.questions) :
                   LET u == URIRef(WD \o S_CompetencyQuestion_ \o str_int(i))
                   IN  /\ <<u, type, URIRef(SCHEMA \o S_Question)>> \in g
                       /\ <<u, label, Literal(last.args.questions[i], "en")>> \in g
                       /\ <<doc, URIRef(SCHEMA \o S_hasPart), u>> \in g

\* A graph was built from two entities, two relations and two questions.
C7_Witness ==
    /\ last.op = "build_knowledge_graph"
    /\ Len(last.args.entities) = 2 /\ last.args.entities[1] # last.args.entities[2]
    /\ Len(last.args.relations) = 2 /\ last.args.relations[1] # last.args.relations[2]
    /\ Len(last.args.questions) = 2 /\ last.args.questions[1] # last.args.questions[2]
    /\ <<URIRef(WD \o S_Document), URIRef(SCHEMA \o S_hasPart),
         URIRef(WD \o S_CompetencyQuestion_ \o <<50>>)>> \in last.ret

\* C8: the URI of a competency question is never the URI of an entity or of
\* a relation, and the URI of a relation is never the URI of an entity.
C8_DistinctNamespaces ==
    last.op = "build_knowledge_graph" =>
        \A e \in 1..Len(last.args.entities), r \in 1..Len(last.args.relations),
           q \in 1..Len(last.args.questions) :
            /\ question_uri(q) # entity_uri(last.args.entities[e])
            /\ question_uri(q) # relation_uri(last.args.relations[r])
            /\ relation_uri(last.args.relations[r]) # entity_uri(last.args.entities[e])

(***************************************************************************)
(* Claims about the orchestrator and the command line (SpecOrchestrator)   *)
(***************************************************************************)

\* C12: generate_knowledge_graph called with an output format other than
\* 'turtle' raises, and no step of the pipeline was started before it did.
C12_RejectedBeforePipeline ==
    (last.op = "generate_knowledge_graph" /\ last.args.output_format # S_turtle) =>
        /\ last.ret.exc # "None"
        /\ last.ret.steps = <<>>

\* The five steps of a pipeline run that reached graph assembly.
AllSteps ==
    <<"textract.process", "generate_questions", "extract_relations",
      "match_relations", "build_knowledge_graph">>

\* When a step of the pipeline raises, main() does not open the output file
\* and exits with a code other than 0; the output file is opened only after
\* all five steps ran and the graph was returned; and the exit code is 0 only
\* when the file holds the whole graph.
PipelineFailureLeavesNoFile ==
    last.op = "main" =>
        /\ (last.args.output_format = S_turtle /\ last.run.exc # "None") =>
               /\ last.ret.file = None
               /\ last.ret.exit_code # 0
        /\ last.ret.file # None =>
               /\ last.run.exc = "None"
               /\ last.ret.steps = AllSteps
        /\ last.ret.exit_code = 0 =>
               /\ last.run.exc = "None"
               /\ last.ret.file = Some(WholeFile(last.run.kg))

\* C14: main() never leaves a partial result: an output file it leaves holds
\* the whole graph; when a step of the pipeline raises, it leaves no output
\* file and exits with a code other than 0; and it writes the file, and
\* exits with 0, only after the whole graph was built and serialized.
C14_NoPartialResult ==
    /\ PipelineFailureLeavesNoFile
    /\ (last.op = "main" /\ last.ret.file # None) => last.ret.file[1].whole

(***************************************************************************)
(* Claims about the question generator (SpecGenerator)                     *)
(***************************************************************************)

\* C15: for every integer max_questions, generate_questions returns the first
\* min(max(max_questions, 0), n) of the n questions generated for the
\* PERSON, ORG, GPE and DATE entities, in entity order.
C15_AtMostMaxQuestions ==
    last.op = "generate_questions" =>
        LET generated == QuestionsFor(last.args.entities)
            n == Cardinality({i \in 1..Len(last.args.entities) :
                                 last.args.entities[i].label
                                     \in {S_PERSON, S_ORG, S_GPE, S_DATE}})
            m == IF last.args.max_questions < 0 THEN 0 ELSE last.args.max_questions
            k == IF m < n THEN m ELSE n
        IN  /\ Len(generated) = n
            /\ last.ret = SubSeq(generated, 1, k)

(***************************************************************************)
(* Claims about the custom-relations file (SpecLoader)                     *)
(***************************************************************************)

\* A file that is unreadable, is not JSON, or is JSON other than an object of
\* dicts that each have a description.
Malformed(config) ==
    \/ config.kind \in {"unreadable", "undecodable", "invalid_json", "too_deep",
                       "huge_integer"}
    \/ /\ config.kind = "json"
       /\ \/ config.value.t # "object"
          \/ \E i \in 1..Len(config.value.items) :
                 \/ "nondict" \in DOMAIN config.value.items[i][2]
                 \/ "description" \notin DOMAIN config.value.items[i][2]

\* C13: for every malformed or unreadable custom-relations file, constructing
\* the RelationExtractor raises nothing and leaves the vocabulary equal to the
\* built-in relations, and no extract_relations call raises.
C13_MalformedConfigNeverFatal ==
    /\ (last.op = "__init__" /\ Malformed(last.args)) =>
           /\ last.exc = "None"
           /\ custom_relations = <<>>
           /\ all_relations = standard_relations
    /\ last.op = "extract_relations" => last.exc = "None"

====
